---- MODULE Spec2Model ----
(***************************************************************************)
(* Family-Tree-Generator: the relationship resolver of script.js           *)
(* (generateTree, processSpouses, processChild, buildAncestryChain, the    *)
(* spouse-child closure), the node/edge construction (createFamilyTrees)   *)
(* and the layout (calculateCustomPositions).                              *)
(*                                                                         *)
(* Representation.  A name is the sequence of its space-separated tokens   *)
(* ("Sarah John Smith" is <<"Sarah","John","Smith">>, "" is <<>>).  A line *)
(* is the sequence of the trimmed parts line.split('+') yields: one part   *)
(* for a line without '+', two or more for a line with '+'.  A node id     *)
(* `${name}@${surname}` is the pair <<name, surname>>.  Coordinates are    *)
(* stored doubled (x2 = 2 * x), because the code halves integer widths.    *)
(***************************************************************************)
EXTENDS Integers, Sequences, FiniteSets, TLC

\* Number of lines of the text area.
MaxLines == 3

\* The engine's call stack: a recursion deeper than this throws RangeError.
MaxCallDepth == 10

-----------------------------------------------------------------------------
(* Names and strings *)

\* The tokens used by the inputs, in ascending UTF-16 code unit order.
SortedTokens ==
    <<"John", "Jones", "Mary", "Sarah", "Smith", "format", "here", "invalid">>

Smith == <<"Smith">>
Jones == <<"Jones">>
JohnSmith == <<"John", "Smith">>
MarySmith == <<"Mary", "Smith">>
MaryJones == <<"Mary", "Jones">>
SarahJohnSmith == <<"Sarah", "John", "Smith">>

\* The falsy value of `x || null` and of `!x`: the empty string or null.
Falsy == << >>

\* Code-unit rank of the pieces a string is cut into: end of string and the
\* empty token first, then ' ' (0x20), '+' (0x2B), '@' (0x40), then letters.
Rank(piece) ==
    IF piece = "" THEN 0
    ELSE IF piece = " " THEN 1
    ELSE IF piece = "+" THEN 2
    ELSE IF piece = "@" THEN 3
    ELSE 3 + (CHOOSE i \in 1..Len(SortedTokens) : SortedTokens[i] = piece)

\* The string of a name, cut into tokens and the spaces between them.
RECURSIVE NameString(_)
NameString(name) ==
    IF Len(name) = 0 THEN << >>
    ELSE IF Len(name) = 1 THEN <<name[1]>>
    ELSE <<name[1], " ">> \o NameString(Tail(name))

\* a < b for two strings, compared code unit by code unit.
RECURSIVE StrLess(_, _)
StrLess(a, b) ==
    IF Len(b) = 0 THEN FALSE
    ELSE IF Len(a) = 0 THEN TRUE
    ELSE IF Rank(a[1]) # Rank(b[1]) THEN Rank(a[1]) < Rank(b[1])
    ELSE StrLess(Tail(a), Tail(b))

\* Number of characters of a name's string.
RECURSIVE StringLength(_)
StringLength(name) ==
    IF Len(name) = 0 THEN 0
    ELSE IF Len(name) = 1 THEN Len(name[1])
    ELSE Len(name[1]) + 1 + StringLength(Tail(name))

includes(seq, x) == \E i \in 1..Len(seq) : seq[i] = x

\* Set.prototype.add on an insertion-ordered Set.
SetAdd(seq, x) == IF includes(seq, x) THEN seq ELSE Append(seq, x)

Range(seq) == {seq[i] : i \in 1..Len(seq)}

-----------------------------------------------------------------------------
(* The people map: a Map in insertion order, as the sequence of its values *)

has(people, name) == \E i \in 1..Len(people) : people[i].name = name

IndexOf(people, name) == CHOOSE i \in 1..Len(people) : people[i].name = name

get(people, name) == people[IndexOf(people, name)]

Keys(people) == {people[i].name : i \in 1..Len(people)}

\* name.split(' ').slice(0, 2).join(' ')
DisplayName(name) == SubSeq(name, 1, IF Len(name) < 2 THEN Len(name) ELSE 2)

createPerson(name, displayName) ==
    [name |-> name, displayName |-> displayName, parents |-> << >>,
     spouses |-> << >>, children |-> << >>, processed |-> FALSE,
     rootName |-> name]

\* name.split(' ').slice(-1).join(' '): the surname alone as the parent.
extractParentNameLastToken(name) ==
    IF Len(name) <= 1 THEN Falsy ELSE <<name[Len(name)]>>

\* name.split(' ').slice(1).join(' ') || null
extractParentName(name) == IF Len(name) <= 1 THEN Falsy ELSE Tail(name)

\* name.split(' ').pop(); "" for the empty name.
getSurname(name) == IF Len(name) = 0 THEN "" ELSE name[Len(name)]

\* linkParentChild without the push to the parent's children.
linkParentChildOneWay(people, parent, child) ==
    LET c == IndexOf(people, child) IN
    IF includes(people[c].parents, parent) THEN people
    ELSE [people EXCEPT ![c].parents = Append(@, parent)]

\* linkParentChild without the includes tests.
linkParentChildUnchecked(people, parent, child) ==
    LET c == IndexOf(people, child)
        p1 == [people EXCEPT ![c].parents = Append(@, parent)]
        p == IndexOf(p1, parent)
    IN  [p1 EXCEPT ![p].children = Append(@, child)]

linkParentChild(people, parent, child) ==
    LET c == IndexOf(people, child)
        p1 == IF includes(people[c].parents, parent) THEN people
              ELSE [people EXCEPT ![c].parents = Append(@, parent)]
        p == IndexOf(p1, parent)
    IN  IF includes(p1[p].children, child) THEN p1
        ELSE [p1 EXCEPT ![p].children = Append(@, child)]

\* The while loop of buildAncestryChain; rootName is the last `current`.
RECURSIVE ancestryLoop(_, _)
ancestryLoop(people, current) ==
    LET parentName == extractParentName(current) IN
    IF parentName = Falsy THEN [people |-> people, rootName |-> current]
    ELSE LET p1 == IF has(people, parentName) THEN people
                   ELSE Append(people,
                               createPerson(parentName, DisplayName(parentName)))
         IN  ancestryLoop(linkParentChild(p1, parentName, current), parentName)

buildAncestryChain(people, name) ==
    LET r == ancestryLoop(people, name) IN
    [r.people EXCEPT ![IndexOf(r.people, name)].rootName = r.rootName]

\* addPersonWithAncestry without the ancestry chain.
addPersonWithoutAncestry(people, name) ==
    IF has(people, name) THEN people
    ELSE Append(people, createPerson(name, DisplayName(name)))

addPersonWithAncestry(people, name) ==
    IF has(people, name) THEN people
    ELSE buildAncestryChain(
             Append(people, createPerson(name, DisplayName(name))), name)

\* The pair key without the sort.
SpouseKeyUnsorted(left, right) ==
    NameString(left) \o <<"+">> \o NameString(right)

\* [left, right].sort().join('+')
SpouseKey(left, right) ==
    IF StrLess(NameString(right), NameString(left))
    THEN NameString(right) \o <<"+">> \o NameString(left)
    ELSE NameString(left) \o <<"+">> \o NameString(right)

\* processSpouses that records the right-hand name without adding the person.
processSpousesRightNotAdded(st, left, right) ==
    LET p1 == addPersonWithAncestry(st.people, left)
        key == SpouseKey(left, right)
    IN  IF key \in st.spouseRelations
        THEN [st EXCEPT !.people = p1]
        ELSE [people |-> [p1 EXCEPT ![IndexOf(p1, left)].spouses =
                                        SetAdd(@, right)],
              spouseRelations |-> st.spouseRelations \cup {key},
              mothers |-> st.mothers \cup {right}]

\* processSpouses that marks the right-hand name of every union line, also
\* of one whose pair is registered.
processSpousesMarkingAlways(st, left, right) ==
    LET p1 == addPersonWithAncestry(st.people, left)
        p2 == addPersonWithAncestry(p1, right)
        key == SpouseKey(left, right)
    IN  IF key \in st.spouseRelations
        THEN [st EXCEPT !.people = p2, !.mothers = @ \cup {right}]
        ELSE LET l == IndexOf(p2, left)
                 p3 == [p2 EXCEPT ![l].spouses = SetAdd(@, right)]
                 r == IndexOf(p3, right)
                 p4 == [p3 EXCEPT ![r].spouses = SetAdd(@, left)]
             IN  [people |-> p4,
                  spouseRelations |-> st.spouseRelations \cup {key},
                  mothers |-> st.mothers \cup {right}]

\* The resolver state is [people, spouseRelations, mothers].
processSpouses(st, left, right) ==
    LET p1 == addPersonWithAncestry(st.people, left)
        p2 == addPersonWithAncestry(p1, right)
        key == SpouseKey(left, right)
    IN  IF key \in st.spouseRelations
        THEN [st EXCEPT !.people = p2]
        ELSE LET l == IndexOf(p2, left)
                 p3 == [p2 EXCEPT ![l].spouses = SetAdd(@, right)]
                 r == IndexOf(p3, right)
                 p4 == [p3 EXCEPT ![r].spouses = SetAdd(@, left)]
             IN  [people |-> p4,
                  spouseRelations |-> st.spouseRelations \cup {key},
                  mothers |-> st.mothers \cup {right}]

\* person.parents.find(p => mothers.has(p)) || person.parents[0], or null
findExistingParent(people, child, mothers) ==
    LET parents == get(people, child).parents IN
    IF Len(parents) = 0 THEN Falsy
    ELSE IF \E i \in 1..Len(parents) : parents[i] \in mothers
    THEN parents[CHOOSE i \in 1..Len(parents) :
                     /\ parents[i] \in mothers
                     /\ \A j \in 1..(i - 1) : parents[j] \notin mothers]
    ELSE parents[1]

processChild(st, child) ==
    LET p1 == addPersonWithAncestry(st.people, child)
        potentialParent == findExistingParent(p1, child, st.mothers)
    IN  IF potentialParent # Falsy
        THEN [st EXCEPT !.people = linkParentChild(p1, potentialParent, child)]
        ELSE [st EXCEPT !.people = p1]

\* The body of the forEach over the lines of the input (script.js 51-61).
\* A blank line is the one-part line of the empty name.
processLine(st, line) ==
    IF Len(line) = 1 /\ line[1] = Falsy THEN st
    ELSE IF Len(line) >= 2 THEN processSpouses(st, line[1], line[2])
    ELSE processChild(st, line[1])

\* The inner loop of the closure stopping after the first spouse.
closureSpousesFirstOnly(people, child, spouses) ==
    IF Len(spouses) = 0 THEN people
    ELSE IF has(people, spouses[1])
            /\ ~includes(get(people, spouses[1]).children, child)
    THEN [people EXCEPT ![IndexOf(people, spouses[1])].children =
              Append(@, child)]
    ELSE people

\* The spouse-child inheritance pass (script.js 74-83).
RECURSIVE closureSpouses(_, _, _)
closureSpouses(people, child, spouses) ==
    IF Len(spouses) = 0 THEN people
    ELSE LET spouse == spouses[1] IN
         closureSpouses(
             IF has(people, spouse)
                /\ ~includes(get(people, spouse).children, child)
             THEN [people EXCEPT ![IndexOf(people, spouse)].children =
                       Append(@, child)]
             ELSE people,
             child, Tail(spouses))

\* person.children.forEach: the elements present when the loop starts.
RECURSIVE closureChildren(_, _, _)
closureChildren(people, i, children) ==
    IF Len(children) = 0 THEN people
    ELSE closureChildren(closureSpouses(people, children[1], people[i].spouses),
                         i, Tail(children))

RECURSIVE closurePeople(_, _)
closurePeople(people, i) ==
    IF i > Len(people) THEN people
    ELSE closurePeople(closureChildren(people, i, people[i].children), i + 1)

closure(people) == closurePeople(people, 1)

EmptyResolver ==
    [people |-> << >>, spouseRelations |-> {}, mothers |-> {}]

RECURSIVE processLines(_, _)
processLines(st, lines) ==
    IF Len(lines) = 0 THEN st
    ELSE processLines(processLine(st, lines[1]), Tail(lines))

-----------------------------------------------------------------------------
(* Node and edge construction: createFamilyTrees (script.js 334-475) *)

\* The string `${name}@${surname}` of a node id.
IdString(id) == NameString(id[1]) \o <<"@", id[2]>>

hasNode(nodes, id) == \E i \in 1..Len(nodes) : nodes[i].id = id

\* Of the vis.js node only the fields the layout reads.
createNode(person, nodeId, level, surname) ==
    [id |-> nodeId, label |-> person.displayName, level |-> level]

\* The builder state is [nodes, edges, processedPairs, overflow]; overflow
\* is the RangeError of an exhausted call stack, which ends the handler.
addNode(t, person, nodeId, level, surname) ==
    IF hasNode(t.nodes, nodeId) THEN t
    ELSE [t EXCEPT !.nodes = Append(@, createNode(person, nodeId, level, surname))]

\* addSpouseEdge with the pair keyed by the names alone, not by the node ids
\* of the family group.
addSpouseEdgeKeyedByName(from, to, t) ==
    LET edgePair == IF StrLess(NameString(to[1]), NameString(from[1]))
                    THEN NameString(to[1]) \o <<"+">> \o NameString(from[1])
                    ELSE NameString(from[1]) \o <<"+">> \o NameString(to[1])
    IN  IF edgePair \in t.processedPairs THEN t
        ELSE [t EXCEPT !.edges = Append(@, [from |-> from, to |-> to,
                                            dashes |-> TRUE]),
                       !.processedPairs = @ \cup {edgePair}]

addSpouseEdge(from, to, t) ==
    LET edgePair == IF StrLess(IdString(to), IdString(from))
                    THEN IdString(to) \o <<"+">> \o IdString(from)
                    ELSE IdString(from) \o <<"+">> \o IdString(to)
    IN  IF edgePair \in t.processedPairs THEN t
        ELSE [t EXCEPT !.edges = Append(@, [from |-> from, to |-> to,
                                            dashes |-> TRUE]),
                       !.processedPairs = @ \cup {edgePair}]

addParentChildEdge(from, to, t) ==
    LET edgeId == IdString(from) \o <<"->">> \o IdString(to) IN
    IF edgeId \in t.processedPairs THEN t
    ELSE [t EXCEPT !.edges = Append(@, [from |-> from, to |-> to,
                                        dashes |-> FALSE]),
                   !.processedPairs = @ \cup {edgeId}]

RECURSIVE processPersonAndSpouseNetwork(_, _, _, _, _, _, _)
RECURSIVE childrenLoop(_, _, _, _, _, _, _)
RECURSIVE spousesLoop(_, _, _, _, _, _, _, _)

\* person.children.forEach of processPersonAndSpouseNetwork (371-387).
childrenLoop(t, people, person, children, surname, level, depth) ==
    IF Len(children) = 0 \/ t.overflow THEN t
    ELSE LET child == get(people, children[1])
             nodeId == <<person.name, surname>>
             childId == <<child.name, surname>>
             isFather == Len(child.name) > 1 /\ Tail(child.name) = person.name
             t1 == addParentChildEdge(nodeId, childId,
                       addNode(t, child, childId, level + 1, surname))
             t2 == IF isFather
                   THEN processPersonAndSpouseNetwork(t1, people, child, surname,
                            level + 1, {}, depth + 1).t
                   ELSE t
         IN  childrenLoop(t2, people, person, Tail(children), surname, level,
                          depth)

\* person.spouses.forEach of processPersonAndSpouseNetwork (390-401); the
\* visited set is shared with the calls it makes.
spousesLoop(t, people, person, spouses, surname, level, visited, depth) ==
    IF Len(spouses) = 0 \/ t.overflow THEN [t |-> t, visited |-> visited]
    ELSE LET spouse == get(people, spouses[1])
             nodeId == <<person.name, surname>>
             spouseId == <<spouse.name, surname>>
             t1 == addSpouseEdge(nodeId, spouseId,
                       addNode(t, spouse, spouseId, level, surname))
             r == processPersonAndSpouseNetwork(t1, people, spouse, surname,
                      level, visited, depth + 1)
         IN  spousesLoop(r.t, people, person, Tail(spouses), surname, level,
                         r.visited, depth)

processPersonAndSpouseNetwork(t, people, person, surname, level, processedInThisChain, depth) ==
    IF t.overflow THEN [t |-> t, visited |-> processedInThisChain]
    ELSE IF depth > MaxCallDepth
    THEN [t |-> [t EXCEPT !.overflow = TRUE], visited |-> processedInThisChain]
    ELSE IF person.name \in processedInThisChain
    THEN [t |-> t, visited |-> processedInThisChain]
    ELSE LET visited == processedInThisChain \cup {person.name}
             t1 == addNode(t, person, <<person.name, surname>>, level, surname)
             t2 == childrenLoop(t1, people, person, person.children, surname,
                                level, depth)
         IN  spousesLoop(t2, people, person, person.spouses, surname, level,
                         visited, depth)

processNodeDFS(t, people, person, surname, level) ==
    processPersonAndSpouseNetwork(t, people, person, surname, level, {}, 1).t

processFamilyTree(t, people, root, surname) ==
    processNodeDFS(t, people, root, surname, 0)

\* The distinct surnames, in the order of their first person.
RECURSIVE surnamesFrom(_, _, _)
surnamesFrom(people, i, acc) ==
    IF i > Len(people) THEN acc
    ELSE surnamesFrom(people, i + 1, SetAdd(acc, getSurname(people[i].name)))

getFamilyRoots(people) == surnamesFrom(people, 1, << >>)

\* filter(p => p.parents.length === 0 && getSurname(p.name) === surname)
RECURSIVE filterRoots(_, _, _)
filterRoots(people, i, surname) ==
    IF i > Len(people) THEN << >>
    ELSE (IF Len(people[i].parents) = 0 /\ getSurname(people[i].name) = surname
          THEN <<people[i]>> ELSE << >>)
         \o filterRoots(people, i + 1, surname)

\* sort((a, b) => a.name.localeCompare(b.name)), a stable insertion sort.
RECURSIVE insertByName(_, _)
insertByName(sorted, person) ==
    IF Len(sorted) = 0 THEN <<person>>
    ELSE IF StrLess(NameString(person.name), NameString(sorted[1].name))
    THEN <<person>> \o sorted
    ELSE <<sorted[1]>> \o insertByName(Tail(sorted), person)

RECURSIVE sortByName(_)
sortByName(persons) ==
    IF Len(persons) = 0 THEN << >>
    ELSE insertByName(sortByName(SubSeq(persons, 1, Len(persons) - 1)),
                      persons[Len(persons)])

RECURSIVE rootsLoop(_, _, _, _)
rootsLoop(t, people, roots, surname) ==
    IF Len(roots) = 0 \/ t.overflow THEN t
    ELSE rootsLoop(processFamilyTree(t, people, roots[1], surname), people,
                   Tail(roots), surname)

RECURSIVE surnamesLoop(_, _, _)
surnamesLoop(t, people, surnames) ==
    IF Len(surnames) = 0 \/ t.overflow THEN t
    ELSE surnamesLoop(
             rootsLoop(t, people,
                       sortByName(filterRoots(people, 1, surnames[1])),
                       surnames[1]),
             people, Tail(surnames))

createFamilyTrees(people) ==
    surnamesLoop([nodes |-> << >>, edges |-> << >>, processedPairs |-> {},
                  overflow |-> FALSE],
                 people, getFamilyRoots(people))

-----------------------------------------------------------------------------
(* Layout: calculateCustomPositions (script.js 620-734) *)

baseWidth == 100

\* parseInt(slider.value) || 300 and parseInt(slider.value) || 50
verticalSpacingOf(value) == IF value = 0 THEN 300 ELSE value
horizontalGapOf(value) == IF value = 0 THEN 50 ELSE value

NodeIds(ns) == {ns[i].id : i \in 1..Len(ns)}

\* find(x); the path compression of the code does not change the result.
RECURSIVE find(_, _)
find(parentUF, x) == IF parentUF[x] = x THEN x ELSE find(parentUF, parentUF[x])

union(parentUF, x, y) ==
    LET rx == find(parentUF, x)
        ry == find(parentUF, y)
    IN  IF rx # ry THEN [parentUF EXCEPT ![ry] = rx] ELSE parentUF

RECURSIVE unionEdges(_, _)
unionEdges(parentUF, es) ==
    IF Len(es) = 0 THEN parentUF
    ELSE unionEdges(IF es[1].dashes THEN union(parentUF, es[1].from, es[1].to)
                    ELSE parentUF,
                    Tail(es))

repMapOf(ns, es) ==
    LET parentUF == unionEdges([id \in NodeIds(ns) |-> id], es) IN
    [id \in NodeIds(ns) |-> find(parentUF, id)]

\* The keys of groupNodes, in insertion order.
RECURSIVE groupReps(_, _, _)
groupReps(ns, repMap, acc) ==
    IF Len(ns) = 0 THEN acc
    ELSE groupReps(Tail(ns), repMap, SetAdd(acc, repMap[ns[1].id]))

\* groupNodes.get(rep): the ids of the group, in node order.
RECURSIVE groupOf(_, _, _)
groupOf(ns, repMap, rep) ==
    IF Len(ns) = 0 THEN << >>
    ELSE (IF repMap[ns[1].id] = rep THEN <<ns[1].id>> ELSE << >>)
         \o groupOf(Tail(ns), repMap, rep)

\* parentChildMap: for each rep the insertion-ordered Set of its child reps;
\* the Map has the key exactly when the Set is not empty.
\* parentChildMapOf without the pRep === cRep test.
RECURSIVE parentChildMapWithSelfLoops(_, _, _)
parentChildMapWithSelfLoops(es, repMap, acc) ==
    IF Len(es) = 0 THEN acc
    ELSE LET pRep == repMap[es[1].from]
             cRep == repMap[es[1].to]
         IN  parentChildMapWithSelfLoops(
                 Tail(es), repMap,
                 IF es[1].dashes THEN acc
                 ELSE [acc EXCEPT ![pRep] = SetAdd(@, cRep)])

RECURSIVE parentChildMapOf(_, _, _)
parentChildMapOf(es, repMap, acc) ==
    IF Len(es) = 0 THEN acc
    ELSE LET pRep == repMap[es[1].from]
             cRep == repMap[es[1].to]
         IN  parentChildMapOf(
                 Tail(es), repMap,
                 IF es[1].dashes \/ pRep = cRep THEN acc
                 ELSE [acc EXCEPT ![pRep] = SetAdd(@, cRep)])

allChildRepsOf(pcm) == UNION {Range(pcm[r]) : r \in DOMAIN pcm}

RECURSIVE rootGroupsOf(_, _)
rootGroupsOf(reps, allChildReps) ==
    IF Len(reps) = 0 THEN << >>
    ELSE (IF reps[1] \in allChildReps THEN << >> ELSE <<reps[1]>>)
         \o rootGroupsOf(Tail(reps), allChildReps)

\* The group forest computed by lines 628-663.
groupsOf(ns, es) ==
    LET repMap == repMapOf(ns, es)
        reps == groupReps(ns, repMap, << >>)
        pcm == parentChildMapOf(es, repMap, [r \in Range(reps) |-> << >>])
    IN  [repMap |-> repMap, reps |-> reps, parentChildMap |-> pcm,
         rootGroups |-> rootGroupsOf(reps, allChildRepsOf(pcm))]

setKey(map, key, value) ==
    [k \in DOMAIN map \cup {key} |-> IF k = key THEN value ELSE map[k]]

\* computeSubtreeWidth; w is [subtreeWidths, width, overflow].
RECURSIVE computeSubtreeWidth(_, _, _, _, _)
RECURSIVE widthChildren(_, _, _, _, _, _, _)

\* widthChildren with the gap added after the last child as well.
RECURSIVE widthChildrenGapAfterLast(_, _, _, _, _, _, _)
widthChildrenGapAfterLast(w, pcm, children, idx0, total, horizontalGap, depth) ==
    IF idx0 > Len(children) \/ w.overflow THEN [w EXCEPT !.width = total]
    ELSE LET c == computeSubtreeWidth(w, pcm, children[idx0], horizontalGap,
                                      depth + 1)
             t == total + c.width + horizontalGap
         IN  widthChildrenGapAfterLast(c, pcm, children, idx0 + 1, t,
                                       horizontalGap, depth)

widthChildren(w, pcm, children, idx0, total, horizontalGap, depth) ==
    IF idx0 > Len(children) \/ w.overflow THEN [w EXCEPT !.width = total]
    ELSE LET c == computeSubtreeWidth(w, pcm, children[idx0], horizontalGap,
                                      depth + 1)
             t == total + c.width
                  + (IF idx0 < Len(children) THEN horizontalGap ELSE 0)
         IN  widthChildren(c, pcm, children, idx0 + 1, t, horizontalGap, depth)

computeSubtreeWidth(w, pcm, groupRep, horizontalGap, depth) ==
    IF w.overflow THEN w
    ELSE IF depth > MaxCallDepth THEN [w EXCEPT !.overflow = TRUE]
    ELSE IF Len(pcm[groupRep]) = 0
    THEN [w EXCEPT !.subtreeWidths = setKey(@, groupRep, baseWidth),
                   !.width = baseWidth]
    ELSE LET c == widthChildren(w, pcm, pcm[groupRep], 1, 0, horizontalGap,
                                depth)
             width == IF c.width > baseWidth THEN c.width ELSE baseWidth
         IN  IF c.overflow THEN c
             ELSE [c EXCEPT !.subtreeWidths = setKey(@, groupRep, width),
                            !.width = width]

RECURSIVE widthRoots(_, _, _, _)
widthRoots(w, pcm, roots, horizontalGap) ==
    IF Len(roots) = 0 \/ w.overflow THEN w
    ELSE widthRoots(computeSubtreeWidth(w, pcm, roots[1], horizontalGap, 1),
                    pcm, Tail(roots), horizontalGap)

hasChildEdge(es, nodeId) ==
    \E i \in 1..Len(es) : ~es[i].dashes /\ es[i].from = nodeId

\* The anchor member: the first member with a descent edge, else group[0].
mainOf(group, es) ==
    IF \E i \in 1..Len(group) : hasChildEdge(es, group[i])
    THEN group[CHOOSE i \in 1..Len(group) :
                   /\ hasChildEdge(es, group[i])
                   /\ \A j \in 1..(i - 1) : ~hasChildEdge(es, group[j])]
    ELSE group[1]

\* nodeObj.label.length * 8, and 80 for a missing node.
labelWidthOf(ns, nodeId) ==
    IF hasNode(ns, nodeId)
    THEN StringLength(
             ns[CHOOSE i \in 1..Len(ns) :
                    /\ ns[i].id = nodeId
                    /\ \A j \in 1..(i - 1) : ns[j].id # nodeId].label) * 8
    ELSE 80

\* group.forEach of assignPositions (697-712); coordinates doubled:
\* labelWidth * 1.5 is 3 * labelWidth doubled, its half 3 * labelWidth / 2.
RECURSIVE placeMembers(_, _, _, _, _, _, _)
placeMembers(pos, ns, es, members, main, baseX2, y) ==
    IF Len(members) = 0 THEN pos
    ELSE LET nodeId == members[1]
             labelWidth == labelWidthOf(ns, nodeId)
             pos1 ==
                 IF nodeId = main THEN pos
                 ELSE IF ~hasChildEdge(es, nodeId)
                 THEN setKey(pos, nodeId,
                             [x2 |-> baseX2 + 3 * labelWidth, y |-> y])
                 ELSE LET mainX2 == pos[main].x2 - (3 * labelWidth) \div 2 IN
                      setKey([pos EXCEPT ![main].x2 = mainX2], nodeId,
                             [x2 |-> mainX2 + 3 * labelWidth, y |-> y])
         IN  placeMembers(pos1, ns, es, Tail(members), main, baseX2, y)

\* assignPositions; a is [pos, xStart, overflow], where xStart records for
\* each group the xStart of its latest call.
RECURSIVE assignPositions(_, _, _, _, _, _)
RECURSIVE assignChildren(_, _, _, _, _, _)

assignChildren(a, L, children, currentX, level, depth) ==
    IF Len(children) = 0 \/ a.overflow THEN a
    ELSE assignChildren(
             assignPositions(a, L, children[1], currentX, level + 1, depth + 1),
             L, Tail(children),
             currentX + L.subtreeWidths[children[1]] + L.horizontalGap,
             level, depth)

\* assignPositions with the rows counted from one.
assignPositionsFromRowOne(a, L, groupRep, xStart, level, depth) ==
    IF a.overflow THEN a
    ELSE IF depth > MaxCallDepth THEN [a EXCEPT !.overflow = TRUE]
    ELSE LET width == L.subtreeWidths[groupRep]
             baseX2 == 2 * xStart + width
             group == groupOf(L.nodes, L.repMap, groupRep)
             main == mainOf(group, L.edges)
             y == (level + 1) * L.verticalSpacing
             pos1 == setKey(a.pos, main, [x2 |-> baseX2, y |-> y])
             pos2 == placeMembers(pos1, L.nodes, L.edges, group, main, baseX2, y)
             a1 == [a EXCEPT !.pos = pos2,
                             !.xStart = setKey(@, groupRep, xStart)]
         IN  assignChildren(a1, L, L.parentChildMap[groupRep], xStart, level,
                            depth)

assignPositions(a, L, groupRep, xStart, level, depth) ==
    IF a.overflow THEN a
    ELSE IF depth > MaxCallDepth THEN [a EXCEPT !.overflow = TRUE]
    ELSE LET width == L.subtreeWidths[groupRep]
             baseX2 == 2 * xStart + width
             group == groupOf(L.nodes, L.repMap, groupRep)
             main == mainOf(group, L.edges)
             y == level * L.verticalSpacing
             pos1 == setKey(a.pos, main, [x2 |-> baseX2, y |-> y])
             pos2 == placeMembers(pos1, L.nodes, L.edges, group, main, baseX2, y)
             a1 == [a EXCEPT !.pos = pos2,
                             !.xStart = setKey(@, groupRep, xStart)]
         IN  assignChildren(a1, L, L.parentChildMap[groupRep], xStart, level,
                            depth)

\* rootGroups.forEach of lines 725-729; r is [a, globalOffsetX].
\* assignRoots with the sibling gap between the trees instead of 200.
RECURSIVE assignRootsSiblingGap(_, _, _)
assignRootsSiblingGap(r, L, roots) ==
    IF Len(roots) = 0 \/ r.a.overflow THEN r
    ELSE assignRootsSiblingGap(
             [a |-> assignPositions(r.a, L, roots[1], r.globalOffsetX, 0, 1),
              globalOffsetX |-> r.globalOffsetX + L.subtreeWidths[roots[1]]
                                + L.horizontalGap],
             L, Tail(roots))

RECURSIVE assignRoots(_, _, _)
assignRoots(r, L, roots) ==
    IF Len(roots) = 0 \/ r.a.overflow THEN r
    ELSE assignRoots(
             [a |-> assignPositions(r.a, L, roots[1], r.globalOffsetX, 0, 1),
              globalOffsetX |-> r.globalOffsetX + L.subtreeWidths[roots[1]] + 200],
             L, Tail(roots))

\* The result is [pos, xStart, subtreeWidths, overflow]; pos maps a node id
\* to [x2, y] with x2 twice the x of the code.
calculateCustomPositions(ns, es, verticalValue, horizontalValue) ==
    LET g == groupsOf(ns, es)
        horizontalGap == horizontalGapOf(horizontalValue)
        w == widthRoots([subtreeWidths |-> << >>, width |-> 0,
                         overflow |-> FALSE],
                        g.parentChildMap, g.rootGroups, horizontalGap)
        L == [nodes |-> ns, edges |-> es, repMap |-> g.repMap,
              parentChildMap |-> g.parentChildMap,
              subtreeWidths |-> w.subtreeWidths,
              verticalSpacing |-> verticalSpacingOf(verticalValue),
              horizontalGap |-> horizontalGap]
        r == IF w.overflow
             THEN [a |-> [pos |-> << >>, xStart |-> << >>, overflow |-> TRUE],
                   globalOffsetX |-> 0]
             ELSE assignRoots([a |-> [pos |-> << >>, xStart |-> << >>,
                                      overflow |-> FALSE],
                               globalOffsetX |-> 0],
                              L, g.rootGroups)
        totalWidth == r.globalOffsetX - 200
    IN  [pos |-> [id \in DOMAIN r.a.pos |->
                      [r.a.pos[id] EXCEPT !.x2 = @ - totalWidth]],
         xStart |-> r.a.xStart,
         subtreeWidths |-> w.subtreeWidths,
         overflow |-> r.a.overflow]

-----------------------------------------------------------------------------
(* The displayed network and its orientation (script.js 183-226, 477-540,   *)
(* 737-769).  The network is [status, nodes, edges, pos]: status is "none"  *)
(* while the variable is undefined, "destroyed" after network.destroy() and  *)
(* "live" else; pos maps a node id to [x4, y4], four times the x and y of    *)
(* the code (the recentering halves a sum of doubled coordinates).  Math.cos *)
(* and Math.sin of the four angles are taken as the quarter-turn values 0,   *)
(* 1 and -1; the doubles of the code differ from them by less than 2^-52.    *)

layoutModes == <<"up-to-down", "down-to-up", "left-to-right", "right-to-left">>

\* Math.cos(angle) and Math.sin(angle) of the angle chosen for a mode.
cosAngle(mode) ==
    IF mode = "up-to-down" THEN 1
    ELSE IF mode = "down-to-up" THEN -1
    ELSE 0

sinAngle(mode) ==
    IF mode = "left-to-right" THEN 1
    ELSE IF mode = "right-to-left" THEN -1
    ELSE 0

SetMin(S) == CHOOSE m \in S : \A n \in S : m <= n
SetMax(S) == CHOOSE m \in S : \A n \in S : n <= m

\* newX and newY of every position, doubled (pos.y is not doubled).
rotatedPositions(pos, mode) ==
    [id \in DOMAIN pos |->
        [x2 |-> pos[id].x2 * cosAngle(mode) - 2 * pos[id].y * sinAngle(mode),
         y2 |-> pos[id].x2 * sinAngle(mode) + 2 * pos[id].y * cosAngle(mode)]]

\* pos.x += centerOffset with centerOffset = -((minX + maxX) / 2), on x and y
\* alike: a variant that also centers vertically.
recenterBothAxes(rotated) ==
    LET xs == {rotated[id].x2 : id \in DOMAIN rotated}
        ys == {rotated[id].y2 : id \in DOMAIN rotated}
    IN  [id \in DOMAIN rotated |->
            [x4 |-> 2 * rotated[id].x2 - (SetMin(xs) + SetMax(xs)),
             y4 |-> 2 * rotated[id].y2 - (SetMin(ys) + SetMax(ys))]]

\* pos.x += centerOffset with centerOffset = -((minX + maxX) / 2).
recenter(rotated) ==
    LET xs == {rotated[id].x2 : id \in DOMAIN rotated} IN
    [id \in DOMAIN rotated |->
        [x4 |-> 2 * rotated[id].x2 - (SetMin(xs) + SetMax(xs)),
         y4 |-> 2 * rotated[id].y2]]

\* nodes.update: the x and y of the listed ids are replaced.
updatePositions(pos, changes) ==
    [id \in DOMAIN pos \cup DOMAIN changes |->
        IF id \in DOMAIN changes THEN changes[id] ELSE pos[id]]

\* A variant that rotates the positions the nodes have now (read back at the
\* scale of the layout), not those of calculateCustomPositions.
applyLayoutRotationCompounding(net, modeIndex, verticalValue, horizontalValue) ==
    [net EXCEPT !.pos = updatePositions(@,
        recenter(rotatedPositions([id \in DOMAIN net.pos |-> [x2 |-> net.pos[id].x4 \div 2, y |-> net.pos[id].y4 \div 4]], layoutModes[modeIndex + 1])))]

\* applyLayoutRotation, and lines 186-225 of toggleLayout: the positions are
\* computed anew from the nodes and edges of the network, then rotated.
applyLayoutRotation(net, modeIndex, verticalValue, horizontalValue) ==
    [net EXCEPT !.pos = updatePositions(@,
        recenter(rotatedPositions(calculateCustomPositions(net.nodes, net.edges, verticalValue, horizontalValue).pos, layoutModes[modeIndex + 1])))]

\* The network drawNetwork creates: each node with a position has it as x, y.
drawNetwork(ns, es, pos) ==
    [status |-> "live", nodes |-> ns, edges |-> es,
     pos |-> [id \in DOMAIN pos |->
                 [x4 |-> 2 * pos[id].x2, y4 |-> 4 * pos[id].y]]]

\* `let network;` before the first drawNetwork.
NoNetwork == [status |-> "none", nodes |-> << >>, edges |-> << >>, pos |-> << >>]

\* network.destroy(): the canvas is removed, nothing is displayed any more.
destroy(net) ==
    IF net.status = "none" THEN net
    ELSE [status |-> "destroyed", nodes |-> << >>, edges |-> << >>,
          pos |-> << >>]

isLive(net) == net.status = "live"

\* toggleLayout on ui = [network, layoutModeIndex].  Without a displayed
\* network only the index advances: network.setOptions throws a TypeError
\* on the undefined variable, and a destroyed network displays nothing.
toggleLayout(ui, verticalValue, horizontalValue) ==
    LET index == (ui.layoutModeIndex + 1) % Len(layoutModes) IN
    [layoutModeIndex |-> index,
     network |-> IF isLive(ui.network)
                 THEN applyLayoutRotation(ui.network, index, verticalValue,
                                          horizontalValue)
                 ELSE ui.network]

\* generateTree from the clearing of the map to applyLayoutRotation (47-107),
\* on ui = [network, layoutModeIndex]: the people map and the network when
\* the handler has ended, by return or by the RangeError of createFamilyTrees.
generateTree(ui, lines, verticalValue, horizontalValue) ==
    LET people == closure(processLines(EmptyResolver, lines).people)
        t == createFamilyTrees(people)
        r == calculateCustomPositions(t.nodes, t.edges, verticalValue,
                                      horizontalValue)
    IN  [people |-> people,
         network |-> IF t.overflow THEN ui.network
                     ELSE IF r.overflow THEN destroy(ui.network)
                     ELSE applyLayoutRotation(
                              drawNetwork(t.nodes, t.edges, r.pos),
                              ui.layoutModeIndex, verticalValue,
                              horizontalValue)]

-----------------------------------------------------------------------------
(* Inputs *)

BlankLine == <<Falsy>>

\* The line "Jones +": split('+') leaves an empty right-hand side.
JonesPlus == <<Jones, Falsy>>

\* The line "invalid+format+here".
InvalidFormatHere == << <<"invalid">>, <<"format">>, <<"here">> >>

Lines ==
    { <<SarahJohnSmith>>, <<JohnSmith>>,
      <<JohnSmith, MaryJones>>, <<MaryJones, JohnSmith>>,
      <<MarySmith, SarahJohnSmith>>,
      <<JohnSmith, Smith>>,
      <<Smith, Jones>>, <<Jones, JohnSmith>>, <<Jones, MarySmith>>,
      <<Jones, Jones, Jones>>, InvalidFormatHere,
      JonesPlus, BlankLine }

Inputs == UNION {[1..n -> Lines] : n \in 0..MaxLines}

\* Values of the two range inputs (vertical 50..300, horizontal 20..150).
VerticalValues == {150}
HorizontalValues == {20, 75}

\* Number of generateTree and clearAll invocations of a session.
MaxInvocations == 3

\* The texts submitted, and the name columns fetched, in a session.
SessionInputs ==
    { << >>,
      << <<SarahJohnSmith>> >>,
      << <<JohnSmith, MaryJones>>, <<SarahJohnSmith>> >>,
      << <<JohnSmith, Smith>> >> }

\* Number of edges of a node/edge input handed to the layout directly.
MaxLayoutEdges == 3

\* Node and edge lists handed to drawNetwork directly: three nodes, and any
\* MaxLayoutEdges of the descent and spouse edges between them.
LayoutNodes ==
    << [id |-> <<Smith, "Smith">>, label |-> Smith, level |-> 0],
       [id |-> <<JohnSmith, "Smith">>, label |-> JohnSmith, level |-> 1],
       [id |-> <<MaryJones, "Smith">>, label |-> MaryJones, level |-> 1] >>

LayoutEdgeList ==
    LET e(i, j, d) == [from |-> LayoutNodes[i].id, to |-> LayoutNodes[j].id,
                       dashes |-> d]
    IN  << e(1, 2, FALSE), e(2, 3, FALSE), e(3, 2, FALSE), e(1, 3, FALSE),
           e(2, 1, FALSE), e(3, 1, FALSE),
           e(1, 2, TRUE), e(2, 3, TRUE), e(1, 3, TRUE) >>

\* The edges of LayoutEdgeList at the chosen places, in their order.
RECURSIVE edgesAt(_, _)
edgesAt(chosen, i) ==
    IF i > Len(LayoutEdgeList) THEN << >>
    ELSE (IF i \in chosen THEN <<LayoutEdgeList[i]>> ELSE << >>)
         \o edgesAt(chosen, i + 1)

LayoutEdgeLists ==
    {edgesAt(chosen, 1) : chosen \in
        {c \in SUBSET (1..Len(LayoutEdgeList)) : Cardinality(c) <= MaxLayoutEdges}}

\* Slider values supplied to a layout called directly.
LayoutVerticalValues == {0, 150}

-----------------------------------------------------------------------------
VARIABLES
    input,            \* the lines of the text area read by generateTree
    idx,              \* position of the forEach over the lines
    pc,               \* "idle", "lines", "closure", "trees", "draw", "done"
    peopleData,       \* the people Map
    spouseRelations,  \* the pair registry of the running generateTree
    mothers,          \* the second-spouse marker set of the running generateTree
    nodes,            \* the node list of createFamilyTrees
    edges,            \* the edge list of createFamilyTrees
    error,            \* "none", or the exception that ended generateTree
    verticalValue,    \* value of the verticalSpacing slider read by the layout
    horizontalValue,  \* value of the horizontalSpacing slider read by the layout
    positions,        \* the Map returned by calculateCustomPositions
    xStarts,          \* for each spouse group, the xStart of its latest
                      \* assignPositions call
    layoutModeIndex,  \* index into layoutModes
    network,          \* the vis.Network on display
    pending,          \* generateTree invocations awaiting fetch(csvUrl)
    submitted,        \* number of generateTree and clearAll invocations so far
    running,          \* the invocation whose synchronous part is running
    applied           \* the invocations that last wrote peopleData and the
                      \* network

vars == <<input, idx, pc, peopleData, spouseRelations, mothers, nodes, edges,
          error, verticalValue, horizontalValue, positions, xStarts,
          layoutModeIndex, network, pending, submitted, running, applied>>

layoutVars == <<verticalValue, horizontalValue, positions, xStarts>>

displayVars == <<layoutModeIndex, network>>

resolver ==
    [people |-> peopleData, spouseRelations |-> spouseRelations,
     mothers |-> mothers]

Init ==
    /\ input = << >>
    /\ idx = 1
    /\ pc = "idle"
    /\ peopleData = << >>
    /\ spouseRelations = {}
    /\ mothers = {}
    /\ nodes = << >>
    /\ edges = << >>
    /\ error = "none"
    /\ verticalValue = 150
    /\ horizontalValue = 50
    /\ positions = << >>
    /\ xStarts = << >>
    /\ layoutModeIndex = 0
    /\ network = NoNetwork
    /\ pending = {}
    /\ submitted = 0
    /\ running = 0
    /\ applied = [people |-> 0, network |-> 0]

\* The synchronous part of generateTree begins (47-49): invocation id clears
\* the map and reads the lines of in.
StartRun(in, id) ==
    /\ input' = in
    /\ idx' = 1
    /\ peopleData' = << >>
    /\ spouseRelations' = {}
    /\ mothers' = {}
    /\ nodes' = << >>
    /\ edges' = << >>
    /\ error' = "none"
    /\ running' = id
    /\ applied' = [applied EXCEPT !.people = id]
    /\ pc' = "lines"
    /\ UNCHANGED layoutVars
    /\ UNCHANGED displayVars

\* generateTree, text input: read the text area, clear the map (16-49).
GenerateTree ==
    /\ pc = "idle"
    /\ submitted' = submitted + 1
    /\ \E in \in Inputs : StartRun(in, submitted + 1)
    /\ UNCHANGED pending

\* One iteration of input.split('\n').forEach (51-61).
ProcessLine ==
    /\ pc = "lines"
    /\ idx <= Len(input)
    /\ LET st == processLine(resolver, input[idx]) IN
        /\ peopleData' = st.people
        /\ spouseRelations' = st.spouseRelations
        /\ mothers' = st.mothers
    /\ idx' = idx + 1
    /\ UNCHANGED <<input, pc, nodes, edges, error>>
    /\ UNCHANGED layoutVars
    /\ UNCHANGED displayVars
    /\ UNCHANGED <<pending, submitted, running, applied>>

EndOfLines ==
    /\ pc = "lines"
    /\ idx > Len(input)
    /\ pc' = "closure"
    /\ UNCHANGED <<input, idx, peopleData, spouseRelations, mothers, nodes,
                   edges, error>>
    /\ UNCHANGED layoutVars
    /\ UNCHANGED displayVars
    /\ UNCHANGED <<pending, submitted, running, applied>>

Closure ==
    /\ pc = "closure"
    /\ peopleData' = closure(peopleData)
    /\ pc' = "trees"
    /\ UNCHANGED <<input, idx, spouseRelations, mothers, nodes, edges, error>>
    /\ UNCHANGED layoutVars
    /\ UNCHANGED displayVars
    /\ UNCHANGED <<pending, submitted, running, applied>>

\* createFamilyTrees (85); a RangeError leaves generateTree before drawNetwork.
CreateFamilyTrees ==
    /\ pc = "trees"
    /\ LET t == createFamilyTrees(peopleData) IN
        IF t.overflow
        THEN /\ error' = "RangeError"
             /\ pc' = "failed"
             /\ UNCHANGED <<nodes, edges>>
        ELSE /\ nodes' = t.nodes
             /\ edges' = t.edges
             /\ pc' = "draw"
             /\ UNCHANGED error
    /\ UNCHANGED <<input, idx, peopleData, spouseRelations, mothers>>
    /\ UNCHANGED layoutVars
    /\ UNCHANGED displayVars
    /\ UNCHANGED <<pending, submitted, running, applied>>

\* drawNetwork and the rest of generateTree (86-107): the old network is
\* destroyed, the positions are computed, the new network is created, and
\* applyLayoutRotation turns it to the current mode.
DrawNetwork ==
    /\ pc = "draw"
    /\ \E v \in VerticalValues, h \in HorizontalValues :
        LET r == calculateCustomPositions(nodes, edges, v, h) IN
        /\ verticalValue' = v
        /\ horizontalValue' = h
        /\ IF r.overflow
           THEN /\ error' = "RangeError"
                /\ pc' = "failed"
                /\ network' = destroy(network)
                /\ UNCHANGED <<positions, xStarts>>
           ELSE /\ positions' = r.pos
                /\ xStarts' = r.xStart
                /\ network' = applyLayoutRotation(drawNetwork(nodes, edges, r.pos),
                                                  layoutModeIndex, v, h)
                /\ pc' = "done"
                /\ UNCHANGED error
    /\ applied' = [applied EXCEPT !.network = running]
    /\ UNCHANGED <<input, idx, peopleData, spouseRelations, mothers, nodes,
                   edges, layoutModeIndex, pending, submitted, running>>

Next ==
    \/ GenerateTree
    \/ ProcessLine
    \/ EndOfLines
    \/ Closure
    \/ CreateFamilyTrees
    \/ DrawNetwork

Spec == Init /\ [][Next]_vars

-----------------------------------------------------------------------------
(* A session: the handlers of the buttons, one after another, and the       *)
(* promise of fetch(csvUrl) settling between two of them.  A handler runs   *)
(* to its end, or to its await, before the next one starts.                 *)

Quiescent == pc \in {"idle", "done", "failed"}

\* generateTree with text in the text area, at any time between handlers.
GenerateTreeText ==
    /\ Quiescent
    /\ submitted < MaxInvocations
    /\ submitted' = submitted + 1
    /\ \E in \in SessionInputs : StartRun(in, submitted + 1)
    /\ UNCHANGED pending

\* generateTree with a Google Sheets URL (19-25): the handler suspends at
\* await fetch(csvUrl) and the event loop goes on.
GenerateTreeSheet ==
    /\ Quiescent
    /\ submitted < MaxInvocations
    /\ submitted' = submitted + 1
    /\ pending' = pending \cup {submitted + 1}
    /\ UNCHANGED <<input, idx, pc, peopleData, spouseRelations, mothers, nodes,
                   edges, error, running, applied>>
    /\ UNCHANGED layoutVars
    /\ UNCHANGED displayVars

\* The fetch of a suspended invocation succeeds (25-38): the invocation
\* resumes with the names of the sheet as its lines.
FetchResolved ==
    /\ Quiescent
    /\ \E id \in pending :
        /\ pending' = pending \ {id}
        /\ \E in \in SessionInputs : StartRun(in, id)
    /\ UNCHANGED submitted

\* The fetch fails (26, 39-42): alert, and the invocation returns.
FetchRejected ==
    /\ Quiescent
    /\ \E id \in pending : pending' = pending \ {id}
    /\ UNCHANGED <<input, idx, pc, peopleData, spouseRelations, mothers, nodes,
                   edges, error, submitted, running, applied>>
    /\ UNCHANGED layoutVars
    /\ UNCHANGED displayVars

\* toggleLayout (183-226); the sliders are read by calculateCustomPositions.
ToggleLayout ==
    /\ Quiescent
    /\ \E v \in VerticalValues, h \in HorizontalValues :
        LET ui == toggleLayout([network |-> network,
                                layoutModeIndex |-> layoutModeIndex], v, h)
        IN  /\ layoutModeIndex' = ui.layoutModeIndex
            /\ network' = ui.network
            /\ IF isLive(network)
               THEN verticalValue' = v /\ horizontalValue' = h
               ELSE UNCHANGED <<verticalValue, horizontalValue>>
    /\ UNCHANGED <<input, idx, pc, peopleData, spouseRelations, mothers, nodes,
                   edges, error, positions, xStarts, pending, submitted,
                   running, applied>>

\* clearAll (228-236).
ClearAll ==
    /\ Quiescent
    /\ submitted < MaxInvocations
    /\ submitted' = submitted + 1
    /\ input' = << >>
    /\ network' = destroy(network)
    /\ peopleData' = << >>
    /\ applied' = [people |-> submitted + 1, network |-> submitted + 1]
    /\ pc' = "idle"
    /\ UNCHANGED <<idx, spouseRelations, mothers, nodes, edges, error,
                   layoutModeIndex, pending, running>>
    /\ UNCHANGED layoutVars

NextSession ==
    \/ GenerateTreeText
    \/ GenerateTreeSheet
    \/ FetchResolved
    \/ FetchRejected
    \/ ProcessLine
    \/ EndOfLines
    \/ Closure
    \/ CreateFamilyTrees
    \/ DrawNetwork
    \/ ToggleLayout
    \/ ClearAll

SpecSession == Init /\ [][NextSession]_vars

-----------------------------------------------------------------------------
(* calculateCustomPositions as a function of its arguments: drawNetwork is  *)
(* handed any of the node and edge lists above, under any slider values.    *)

InitLayout ==
    /\ input = << >>
    /\ idx = 1
    /\ pc = "draw"
    /\ peopleData = << >>
    /\ spouseRelations = {}
    /\ mothers = {}
    /\ nodes = LayoutNodes
    /\ edges \in LayoutEdgeLists
    /\ error = "none"
    /\ verticalValue = 150
    /\ horizontalValue = 50
    /\ positions = << >>
    /\ xStarts = << >>
    /\ layoutModeIndex = 0
    /\ network = NoNetwork
    /\ pending = {}
    /\ submitted = 0
    /\ running = 0
    /\ applied = [people |-> 0, network |-> 0]

\* drawNetwork (477-491): the positions, and the nodes that receive them.
DrawNetworkOnly ==
    /\ pc = "draw"
    /\ \E v \in LayoutVerticalValues, h \in HorizontalValues :
        LET r == calculateCustomPositions(nodes, edges, v, h) IN
        /\ verticalValue' = v
        /\ horizontalValue' = h
        /\ IF r.overflow
           THEN /\ error' = "RangeError"
                /\ pc' = "failed"
                /\ UNCHANGED <<positions, xStarts, network>>
           ELSE /\ positions' = r.pos
                /\ xStarts' = r.xStart
                /\ network' = drawNetwork(nodes, edges, r.pos)
                /\ pc' = "done"
                /\ UNCHANGED error
    /\ UNCHANGED <<input, idx, peopleData, spouseRelations, mothers, nodes,
                   edges, layoutModeIndex, pending, submitted, running,
                   applied>>

NextLayout == DrawNetworkOnly

SpecLayout == InitLayout /\ [][NextLayout]_vars

-----------------------------------------------------------------------------
(* Properties *)

\* The lines the forEach has processed so far.
Processed == SubSeq(input, 1, idx - 1)

AfterClosure == pc \in {"trees", "draw", "done", "failed"}

\* name with its first k - 1 tokens removed.
Suffix(name, k) == SubSeq(name, k, Len(name))

isParentOf(people, parent, child) ==
    /\ has(people, parent)
    /\ has(people, child)
    /\ includes(get(people, parent).children, child)
    /\ includes(get(people, child).parents, parent)

\* C1: for every processed descent line of two or more tokens, every proper
\* suffix name is in the people map, and each suffix is linked to the next
\* longer one as parent (children list) and child (parents list).
C1_AncestryChainComplete ==
    \A i \in 1..Len(Processed) :
        (Len(input[i]) = 1 /\ Len(input[i][1]) >= 2) =>
            \A k \in 2..Len(input[i][1]) :
                isParentOf(peopleData, Suffix(input[i][1], k),
                           Suffix(input[i][1], k - 1))

\* The line "Sarah John Smith" processed alone: "John Smith" and "Smith" are
\* lines of nobody.
C1_Witness ==
    /\ input = << <<SarahJohnSmith>> >>
    /\ idx = 2
    /\ Keys(peopleData) = {SarahJohnSmith, JohnSmith, Smith}

isUnion(line) == Len(line) = 2

samePair(l1, l2) == {l1[1], l1[2]} = {l2[1], l2[2]}

spousesOf(people, name) == Range(get(people, name).spouses)

SpouseSymmetric ==
    \A i, j \in 1..Len(peopleData) :
        peopleData[j].name \in Range(peopleData[i].spouses)
            <=> peopleData[i].name \in Range(peopleData[j].spouses)

UnionLinesJoined ==
    \A i \in 1..Len(Processed) :
        isUnion(input[i]) =>
            /\ has(peopleData, input[i][1]) /\ has(peopleData, input[i][2])
            /\ input[i][2] \in spousesOf(peopleData, input[i][1])
            /\ input[i][1] \in spousesOf(peopleData, input[i][2])

RepeatedUnionAddsNothing ==
    (/\ pc = "lines"
     /\ idx <= Len(input)
     /\ idx' = idx + 1
     /\ isUnion(input[idx])
     /\ \E j \in 1..(idx - 1) : isUnion(input[j]) /\ samePair(input[j], input[idx]))
    => /\ Len(peopleData') = Len(peopleData)
       /\ \A i \in 1..Len(peopleData) :
              peopleData'[i].spouses = peopleData[i].spouses
       /\ spouseRelations' = spouseRelations
       /\ mothers' = mothers

\* C2: the spouse relation is symmetric in every state, every processed union
\* line has put each name in the other's spouses, and processing a union line
\* whose unordered pair was processed before changes no spouses set, nor the
\* pair registry, nor the second-spouse marker set.
C2_SpouseSymmetryDedup ==
    /\ [](SpouseSymmetric /\ UnionLinesJoined)
    /\ [][RepeatedUnionAddsNothing]_vars

\* "John Smith + Mary Jones" and then "Mary Jones + John Smith", both processed.
C2_Witness ==
    /\ Len(input) >= 2
    /\ input[1] = <<JohnSmith, MaryJones>>
    /\ input[2] = <<MaryJones, JohnSmith>>
    /\ idx = 3
    /\ mothers = {MaryJones}

\* C3: the closure pass gives every child a person had when line processing
\* finished to every spouse of that person.
C3_SpouseChildInheritance ==
    [][(pc = "closure" /\ pc' = "trees") =>
          \A i \in 1..Len(peopleData) :
              \A s \in Range(peopleData[i].spouses) :
                  \A c \in Range(peopleData[i].children) :
                      /\ has(peopleData', s)
                      /\ includes(get(peopleData', s).children, c)]_vars

\* 'X + Y' then 'Z X' after the closure: Z is a child of X and of Y.
C3_Witness ==
    /\ input = << <<JohnSmith, MaryJones>>, <<SarahJohnSmith>> >>
    /\ pc = "trees"
    /\ includes(get(peopleData, JohnSmith).children, SarahJohnSmith)
    /\ includes(get(peopleData, MaryJones).children, SarahJohnSmith)

\* C4: processing a line with two or more '+' is reported as a malformed
\* union and leaves the people map, the pair registry and the marker set as
\* they were.
C4_MalformedRejected ==
    [][(pc = "lines" /\ idx <= Len(input) /\ idx' = idx + 1
        /\ Len(input[idx]) >= 3)
       => /\ peopleData' = peopleData
          /\ spouseRelations' = spouseRelations
          /\ mothers' = mothers
          /\ error' = "MalformedUnionError"]_vars

isMalformed(line) == Len(line) >= 3

RECURSIVE validLines(_)
validLines(lines) ==
    IF Len(lines) = 0 THEN << >>
    ELSE (IF isMalformed(lines[1]) THEN << >> ELSE <<lines[1]>>)
         \o validLines(Tail(lines))

\* Every person and link of people a is a person and link of people b.
PeopleContained(a, b) ==
    \A i \in 1..Len(a) :
        /\ has(b, a[i].name)
        /\ Range(a[i].parents) \subseteq Range(get(b, a[i].name).parents)
        /\ Range(a[i].children) \subseteq Range(get(b, a[i].name).children)
        /\ Range(a[i].spouses) \subseteq Range(get(b, a[i].name).spouses)

\* C5: the result of a batch holds every person, parent/child link and spouse
\* link of the result of its valid lines alone.
C5_PerLineRecovery ==
    AfterClosure =>
        /\ idx = Len(input) + 1
        /\ PeopleContained(
               closure(processLines(EmptyResolver, validLines(input)).people),
               peopleData)

ScenarioInput == << <<JohnSmith, MaryJones>>, <<SarahJohnSmith>> >>

\* C6 as stated: the people of the scenario are exactly John Smith, Mary
\* Jones, Sarah John Smith and Smith.
C6_ScenarioAsStated ==
    (input = ScenarioInput /\ AfterClosure) =>
        /\ Keys(peopleData) = {JohnSmith, MaryJones, SarahJohnSmith, Smith}
        /\ get(peopleData, SarahJohnSmith).parents = <<JohnSmith>>
        /\ includes(get(peopleData, MaryJones).children, SarahJohnSmith)

\* C6 amended: the people of the scenario are exactly John Smith, Mary Jones,
\* Sarah John Smith, Smith and Jones (the ancestor synthesized from "Mary
\* Jones"); the parents of Sarah John Smith are exactly John Smith, and after
\* the closure Mary Jones has Sarah John Smith among her children.
C6_Scenario ==
    (input = ScenarioInput /\ AfterClosure) =>
        /\ Keys(peopleData) =
               {JohnSmith, MaryJones, SarahJohnSmith, Smith, Jones}
        /\ get(peopleData, SarahJohnSmith).parents = <<JohnSmith>>
        /\ includes(get(peopleData, MaryJones).children, SarahJohnSmith)

C6_Witness ==
    /\ input = ScenarioInput
    /\ pc = "done"
    /\ Len(peopleData) = 5

\* C7: every person's rootName is the one-token name of the last token of
\* its full name.
C7_RootName ==
    \A i \in 1..Len(peopleData) :
        Len(peopleData[i].name) >= 1 =>
            peopleData[i].rootName = <<getSurname(peopleData[i].name)>>

\* C8: the node/edge construction terminates on the closed people graph of
\* every input (it does not exhaust the call stack).
C8_TraversalTerminates ==
    pc = "trees" => ~createFamilyTrees(peopleData).overflow

\* The span [start, start + width) of two groups do not overlap.
SpansDisjoint(start1, width1, start2, width2) ==
    start1 + width1 <= start2 \/ start2 + width2 <= start1

\* C9: the spans finally assigned to two distinct child groups of one parent
\* group do not overlap.
C9_NoSiblingOverlap ==
    pc = "done" =>
        LET g == groupsOf(nodes, edges)
            w == calculateCustomPositions(nodes, edges, verticalValue,
                                          horizontalValue).subtreeWidths
        IN  \A p \in DOMAIN xStarts :
                \A c1, c2 \in Range(g.parentChildMap[p]) :
                    c1 # c2 =>
                        SpansDisjoint(xStarts[c1], w[c1], xStarts[c2], w[c2])

\* C10: no two distinct nodes receive the same coordinates.
C10_CollisionFree ==
    pc = "done" =>
        \A a, b \in DOMAIN positions :
            a # b => positions[a] # positions[b]

-----------------------------------------------------------------------------
(* The session: C11 to C14 *)

\* C11: once a later invocation (of generateTree or clearAll) has written
\* peopleData or the displayed network, no earlier invocation writes it:
\* the invocation that last wrote each of them never becomes an older one.
C11_LastSubmittedWins ==
    [][/\ applied'.people >= applied.people
       /\ applied'.network >= applied.network]_vars

\* C12: when generateTree has ended, the people map and the displayed
\* network are those of a generateTree of the same input, under the same
\* slider values and orientation, from the state of a freshly loaded page.
C12_RebuildFromScratch ==
    pc \in {"done", "failed"} =>
        LET r == generateTree([network |-> NoNetwork,
                               layoutModeIndex |-> layoutModeIndex],
                              input, verticalValue, horizontalValue)
        IN  /\ peopleData = r.people
            /\ network = r.network

\* The un-rotated layout of the displayed nodes and edges, under the slider
\* values last read.
Canonical ==
    calculateCustomPositions(network.nodes, network.edges, verticalValue,
                             horizontalValue).pos

\* A position [x2, y] turned once by the angle of mode k (0, 180, 90 and -90
\* degrees for k = 0, 1, 2, 3), both coordinates doubled.
Turned(p, k) ==
    IF k = 0 THEN [x2 |-> p.x2, y2 |-> 2 * p.y]
    ELSE IF k = 1 THEN [x2 |-> 0 - p.x2, y2 |-> 0 - 2 * p.y]
    ELSE IF k = 2 THEN [x2 |-> 0 - 2 * p.y, y2 |-> p.x2]
    ELSE [x2 |-> 2 * p.y, y2 |-> 0 - p.x2]

\* C13: the displayed positions are the un-rotated layout turned once by the
\* angle of the current mode and recentered on x, whatever the number of
\* toggleLayout calls before; and four toggles in a row (slider values left
\* alone) give back the mode and the positions they started from.
C13_RotationFromCanonical ==
    isLive(network) =>
        LET txs == {Turned(Canonical[id], layoutModeIndex).x2 :
                       id \in DOMAIN Canonical}
            ui == [network |-> network, layoutModeIndex |-> layoutModeIndex]
            toggled(u) == toggleLayout(u, verticalValue, horizontalValue)
        IN  /\ layoutModeIndex \in 0..3
            /\ DOMAIN network.pos = DOMAIN Canonical
            /\ \A id \in DOMAIN Canonical :
                   LET t == Turned(Canonical[id], layoutModeIndex) IN
                   network.pos[id] =
                       [x4 |-> 2 * t.x2 - (SetMin(txs) + SetMax(txs)),
                        y4 |-> 2 * t.y2]
            /\ toggled(ui).layoutModeIndex = (layoutModeIndex + 1) % 4
            /\ toggled(toggled(toggled(toggled(ui)))) = ui

\* The scenario, toggled three times to right-to-left: nodes in several rows
\* and columns.
C13_Witness ==
    /\ pc = "done"
    /\ isLive(network)
    /\ layoutModeIndex = 3
    /\ \E a, b \in DOMAIN network.pos :
           /\ network.pos[a].x4 # network.pos[b].x4
           /\ network.pos[a].y4 # network.pos[b].y4

\* C14: in each of the four orientations of a non-empty layout the smallest
\* and the largest displayed x sum to zero and every displayed y is the
\* turned y, unshifted; at 0 degrees every y, and every difference of two
\* x, is that of the un-rotated layout.
C14_RecenterHorizontalOnly ==
    (isLive(network) /\ DOMAIN network.pos # {}) =>
        LET xs == {network.pos[id].x4 : id \in DOMAIN network.pos} IN
        /\ SetMin(xs) + SetMax(xs) = 0
        /\ \A id \in DOMAIN network.pos :
               network.pos[id].y4 =
                   2 * Turned(Canonical[id], layoutModeIndex).y2
        /\ layoutModeIndex = 0 =>
               \A a, b \in DOMAIN network.pos :
                   /\ network.pos[a].y4 = 4 * Canonical[a].y
                   /\ network.pos[a].x4 - network.pos[b].x4 =
                          2 * (Canonical[a].x2 - Canonical[b].x2)

\* A layout of several rows, turned to left-to-right.
C14_Witness ==
    /\ isLive(network)
    /\ layoutModeIndex = 2
    /\ Cardinality(DOMAIN network.pos) >= 3
    /\ \E id \in DOMAIN network.pos : network.pos[id].x4 # 0

-----------------------------------------------------------------------------
(* The layout as a function of its arguments: C15, C16, C19 *)

\* C15: calculateCustomPositions returns on every node/edge input, a cycle
\* of descent edges between spouse groups below a root group included: the
\* recursion does not exhaust the call stack.
C15_LayoutCycleGuard ==
    ~(pc = "failed" /\ error = "RangeError")

\* C16: when drawNetwork has created the network, every node of the list
\* has a position in the map and so has coordinates.
C16_TotalPositionMap ==
    pc = "done" =>
        /\ DOMAIN positions = NodeIds(nodes)
        /\ DOMAIN network.pos = NodeIds(network.nodes)

\* C19: under a verticalSpacing slider value of 0 the layout gives every
\* node the same y.
C19_ZeroSpacingCollapses ==
    (pc = "done" /\ verticalValue = 0) =>
        \A a, b \in DOMAIN positions : positions[a].y = positions[b].y

-----------------------------------------------------------------------------
(* The layout of resolved graphs: C17, C18; the closure: C20 *)

\* The parent groups of a child group.
ParentGroups(pcm, c) == {p \in DOMAIN pcm : c \in Range(pcm[p])}

\* The rows of the scenario in the Smith tree: 'Smith' at depth 0, 'John
\* Smith' and 'Mary Jones' at depth 1, 'Sarah John Smith' at depth 2.
ScenarioRows(spacing) ==
    input = ScenarioInput =>
        /\ positions[<<Smith, "Smith">>].y = 0
        /\ positions[<<JohnSmith, "Smith">>].y = spacing
        /\ positions[<<MaryJones, "Smith">>].y = spacing
        /\ positions[<<SarahJohnSmith, "Smith">>].y = 2 * spacing

\* C17 as stated: the members of one spouse group share their y, every root
\* group is at y = 0, and along every descent edge between two groups the
\* child group is verticalSpacing below the parent group.
C17_DepthRowsAsStated ==
    pc = "done" =>
        LET g == groupsOf(nodes, edges)
            spacing == verticalSpacingOf(verticalValue)
        IN  /\ \A a, b \in NodeIds(nodes) :
                   g.repMap[a] = g.repMap[b] => positions[a].y = positions[b].y
            /\ \A r \in Range(g.rootGroups) : positions[r].y = 0
            /\ \A p \in DOMAIN g.parentChildMap :
                   \A c \in Range(g.parentChildMap[p]) :
                       positions[c].y = positions[p].y + spacing
            /\ ScenarioRows(spacing)

\* C17, amended: the members of one spouse group share their y, every root
\* group is at y = 0, and a child group that has a single parent group is
\* verticalSpacing below that parent group; the rows of the scenario are as
\* stated.
C17_DepthRows ==
    pc = "done" =>
        LET g == groupsOf(nodes, edges)
            spacing == verticalSpacingOf(verticalValue)
        IN  /\ \A a, b \in NodeIds(nodes) :
                   g.repMap[a] = g.repMap[b] => positions[a].y = positions[b].y
            /\ \A r \in Range(g.rootGroups) : positions[r].y = 0
            /\ \A p \in DOMAIN g.parentChildMap :
                   \A c \in Range(g.parentChildMap[p]) :
                       ParentGroups(g.parentChildMap, c) = {p} =>
                           positions[c].y = positions[p].y + spacing
            /\ ScenarioRows(spacing)

\* The scenario laid out: three rows, one of them a spouse group of two.
C17_Witness ==
    /\ pc = "done"
    /\ input = ScenarioInput
    /\ \E a, b \in DOMAIN positions :
           /\ a # b
           /\ groupsOf(nodes, edges).repMap[a] = groupsOf(nodes, edges).repMap[b]
    /\ \E a \in DOMAIN positions :
           positions[a].y = 2 * verticalSpacingOf(verticalValue)

\* Consecutive root groups' spans are 200 apart, the first starting at 0
\* before the final shift.
RootSpansGap200(roots, w) ==
    /\ xStarts[roots[1]] = 0
    /\ \A i \in 1..(Len(roots) - 1) :
           xStarts[roots[i + 1]] = xStarts[roots[i]] + w[roots[i]] + 200

\* C18 as stated: the smallest and the largest node x sum to zero, and
\* consecutive root groups' spans are 200 apart.
C18_RecenteringAsStated ==
    (pc = "done" /\ DOMAIN positions # {}) =>
        LET g == groupsOf(nodes, edges)
            w == calculateCustomPositions(nodes, edges, verticalValue,
                                          horizontalValue).subtreeWidths
            xs == {positions[id].x2 : id \in DOMAIN positions}
        IN  /\ SetMin(xs) + SetMax(xs) = 0
            /\ RootSpansGap200(g.rootGroups, w)

\* C18, amended: consecutive root groups' spans are 200 apart, and the final
\* shift centers the composite of these spans, not the nodes: with
\* totalWidth the end of the last root span, a root group of one person is
\* at the midpoint of its span moved left by totalWidth / 2.
C18_Recentering ==
    (pc = "done" /\ DOMAIN positions # {}) =>
        LET g == groupsOf(nodes, edges)
            w == calculateCustomPositions(nodes, edges, verticalValue,
                                          horizontalValue).subtreeWidths
            last == g.rootGroups[Len(g.rootGroups)]
            totalWidth == xStarts[last] + w[last]
        IN  /\ RootSpansGap200(g.rootGroups, w)
            /\ \A r \in Range(g.rootGroups) :
                   Len(groupOf(nodes, g.repMap, r)) = 1 =>
                       positions[r].x2 = 2 * xStarts[r] + w[r] - totalWidth

\* Two trees side by side whose nodes are not centered on x = 0.
C18_Witness ==
    /\ pc = "done"
    /\ Len(groupsOf(nodes, edges).rootGroups) >= 2
    /\ LET xs == {positions[id].x2 : id \in DOMAIN positions} IN
       SetMin(xs) + SetMax(xs) # 0

\* C20: the closure pass adds a child to the children of S only when S is a
\* spouse of a person who had that child among its children before the pass.
C20_OneHopClosure ==
    [][(pc = "closure" /\ pc' = "trees") =>
           \A i \in 1..Len(peopleData) :
               \A c \in Range(peopleData'[i].children)
                            \ Range(peopleData[i].children) :
                   \E j \in 1..Len(peopleData) :
                       /\ includes(peopleData[j].spouses, peopleData[i].name)
                       /\ includes(peopleData[j].children, c)]_vars

-----------------------------------------------------------------------------
(* Family groups and sibling order: C21, C22 *)

\* A union edge joins the nodes of x and y in the family group of surname.
UnionEdgeIn(x, y, surname) ==
    \E k \in 1..Len(edges) :
        /\ edges[k].dashes
        /\ {edges[k].from, edges[k].to} = {<<x, surname>>, <<y, surname>>}

\* C21: for every union line 'X + Y' whose participants have different
\* surnames, the node list has X and Y in the family group of X's surname
\* and in that of Y's surname, joined by a union edge in each group.
C21_CrossFamilyMarriage ==
    pc \in {"draw", "done"} =>
        \A i \in 1..Len(input) :
            (Len(input[i]) = 2 /\ getSurname(input[i][1]) # getSurname(input[i][2])) =>
                \A surname \in {getSurname(input[i][1]), getSurname(input[i][2])} :
                    /\ hasNode(nodes, <<input[i][1], surname>>)
                    /\ hasNode(nodes, <<input[i][2], surname>>)
                    /\ UnionEdgeIn(input[i][1], input[i][2], surname)

\* "John Smith + Mary Jones" drawn: four nodes of the couple, two trees.
C21_Witness ==
    /\ pc = "done"
    /\ \E i \in 1..Len(input) : input[i] = <<JohnSmith, MaryJones>>
    /\ hasNode(nodes, <<JohnSmith, "Jones">>)
    /\ hasNode(nodes, <<MaryJones, "Smith">>)

\* a comes before b, or is b, in alphabetical order.
NameLeq(a, b) == ~StrLess(NameString(b), NameString(a))

\* C22: every parent's children list is in alphabetical order of the names,
\* and so is the left-to-right order of the children's nodes below each
\* parent node, whatever the order of the input lines.
C22_AlphabeticalSiblings ==
    /\ pc \in {"closure", "trees", "draw", "done", "failed"} =>
           \A i \in 1..Len(peopleData) :
               \A j, k \in 1..Len(peopleData[i].children) :
                   j < k => NameLeq(peopleData[i].children[j],
                                    peopleData[i].children[k])
    /\ pc = "done" =>
           \A j, k \in 1..Len(edges) :
               (/\ ~edges[j].dashes
                /\ ~edges[k].dashes
                /\ edges[j].from = edges[k].from
                /\ StrLess(NameString(edges[j].to[1]), NameString(edges[k].to[1]))) =>
                   positions[edges[j].to].x2 < positions[edges[k].to].x2

-----------------------------------------------------------------------------
(* The resolver's bookkeeping: C23, C26 to C30 *)

\* The k-th processed line is a union line, the first of its unordered pair.
FirstOfPair(k) ==
    /\ Len(Processed[k]) >= 2
    /\ \A j \in 1..(k - 1) :
           Len(Processed[j]) >= 2 =>
               {Processed[j][1], Processed[j][2]} #
                   {Processed[k][1], Processed[k][2]}

\* C26: the marker set holds exactly the right-hand names of the union lines
\* that were the first of their unordered pair; a later line of the pair,
\* swapped or not, adds nothing.
C26_SecondSpouseMarker ==
    mothers = {Processed[k][2] : k \in {j \in 1..Len(Processed) : FirstOfPair(j)}}

\* "John Smith + Mary Jones", then the same pair swapped: only Mary Jones is
\* marked.
C26_Witness ==
    /\ pc = "lines"
    /\ idx = 3
    /\ input[1] = <<JohnSmith, MaryJones>>
    /\ input[2] = <<MaryJones, JohnSmith>>
    /\ mothers = {MaryJones}

\* Every name in a parents, children or spouses collection is a key.
ReferencesResolve(people) ==
    \A i \in 1..Len(people) :
        Range(people[i].parents) \cup Range(people[i].children)
            \cup Range(people[i].spouses) \subseteq Keys(people)

\* C27: after every line and after the closure pass every name stored in a
\* parents, children or spouses collection is a key of the people map, and
\* within a run no key leaves the map.
C27_ReferentialIntegrity ==
    [][/\ ReferencesResolve(peopleData')
       /\ pc # "idle" => Keys(peopleData) \subseteq Keys(peopleData')]_vars

\* The scenario after the closure: four relations, all between keys.
C27_Witness ==
    /\ pc = "trees"
    /\ input = ScenarioInput
    /\ includes(get(peopleData, MaryJones).children, SarahJohnSmith)
    /\ includes(get(peopleData, SarahJohnSmith).parents, JohnSmith)
    /\ includes(get(peopleData, JohnSmith).spouses, MaryJones)

\* The lines with the two names of the k-th line, a union line, swapped.
Swapped(lines, k) ==
    [lines EXCEPT ![k] = <<lines[k][2], lines[k][1]>>
                         \o SubSeq(lines[k], 3, Len(lines[k]))]

\* The people and their relations, without the order of insertion.
Relations(people) ==
    {[name |-> people[i].name,
      parents |-> Range(people[i].parents),
      children |-> Range(people[i].children),
      spouses |-> Range(people[i].spouses)] : i \in 1..Len(people)}

\* Every person has at most one parent, its name without the first token.
SingleNameDerivedParent ==
    \A i \in 1..Len(peopleData) :
        /\ Len(peopleData[i].parents) <= 1
        /\ Len(peopleData[i].parents) = 1 =>
               peopleData[i].parents[1] = Tail(peopleData[i].name)

\* The link processChild makes to the parent it chose adds nothing to what
\* addPersonWithAncestry has built.
ParentChoiceIsNoOp ==
    (pc = "lines" /\ idx <= Len(input) /\ Len(input[idx]) = 1
     /\ input[idx] # BlankLine) =>
        processChild(resolver, input[idx][1]).people =
            addPersonWithAncestry(peopleData, input[idx][1])

\* C28 as stated: a single name-derived parent, a parent choice that changes
\* nothing, and the people map and the pair registry after the lines are
\* the same when the two names of any one union line are swapped.
C28_SingleParentAsStated ==
    /\ SingleNameDerivedParent
    /\ ParentChoiceIsNoOp
    /\ pc = "closure" =>
           \A k \in 1..Len(input) :
               Len(input[k]) >= 2 =>
                   LET r == processLines(EmptyResolver, Swapped(input, k)) IN
                   /\ r.people = peopleData
                   /\ r.spouseRelations = spouseRelations

\* C28, amended: a single name-derived parent, a parent choice that changes
\* nothing, and swapping the two names of a union line leaves the people,
\* their parents, children and spouses and the pair registry the same after
\* the lines; besides the marker set only the order of insertion changes.
C28_SingleParent ==
    /\ SingleNameDerivedParent
    /\ ParentChoiceIsNoOp
    /\ pc = "closure" =>
           \A k \in 1..Len(input) :
               Len(input[k]) >= 2 =>
                   LET r == processLines(EmptyResolver, Swapped(input, k)) IN
                   /\ Relations(r.people) = Relations(peopleData)
                   /\ r.spouseRelations = spouseRelations

\* "Jones + John Smith" marks John Smith, the parent "Sarah John Smith" is
\* then linked to.
C28_Witness ==
    /\ pc = "closure"
    /\ input = << <<Jones, JohnSmith>>, <<SarahJohnSmith>> >>
    /\ JohnSmith \in mothers
    /\ get(peopleData, SarahJohnSmith).parents = <<JohnSmith>>

\* C23: processing a line equal to a line processed before in the same run
\* leaves the people map, the pair registry and the marker set as they are,
\* and the map never holds two records of one name.
C23_IdempotentReinsertion ==
    [][(pc = "lines" /\ idx <= Len(input) /\ idx' = idx + 1) =>
           /\ (\E k \in 1..(idx - 1) : input[k] = input[idx]) =>
                  /\ peopleData' = peopleData
                  /\ spouseRelations' = spouseRelations
                  /\ mothers' = mothers
           /\ \A i, j \in 1..Len(peopleData') :
                  peopleData'[i].name = peopleData'[j].name => i = j]_vars

\* John Smith as a descent-line subject, then as a union participant, then
\* the descent line again.
C23_Witness ==
    /\ pc = "lines"
    /\ idx = 4
    /\ input = << <<JohnSmith>>, <<JohnSmith, MaryJones>>, <<JohnSmith>> >>
    /\ get(peopleData, JohnSmith).spouses = <<MaryJones>>
    /\ get(peopleData, JohnSmith).parents = <<Smith>>

\* C24: after the grouping no spouse group is among its own child groups,
\* also when a descent edge joins two members of one spouse group.
C24_NoSelfLoopGroups ==
    LET parentChildMap == groupsOf(nodes, edges).parentChildMap IN
    \A p \in DOMAIN parentChildMap : ~includes(parentChildMap[p], p)

\* A layout computed on a descent edge between two spouses.
C24_Witness ==
    /\ pc = "done"
    /\ \E k \in 1..Len(edges) :
           /\ ~edges[k].dashes
           /\ groupsOf(nodes, edges).repMap[edges[k].from] =
                  groupsOf(nodes, edges).repMap[edges[k].to]

\* C29: once the lines are processed and the closure pass has run, no person
\* is among its own spouses and no person is among its own children.
C29_NoSelfRelations ==
    pc \in {"trees", "draw", "done", "failed"} =>
        \A i \in 1..Len(peopleData) :
            /\ ~includes(peopleData[i].spouses, peopleData[i].name)
            /\ ~includes(peopleData[i].children, peopleData[i].name)

\* C30: every key of the people map is a non-empty name.
C30_NonEmptyNames ==
    \A i \in 1..Len(peopleData) : peopleData[i].name # Falsy

-----------------------------------------------------------------------------
(* Subtree widths: C25 *)

\* The widths of the first n groups of children with a gap between each two.
RECURSIVE WidthOfFirst(_, _, _, _)
WidthOfFirst(w, children, n, gap) ==
    IF n = 0 THEN 0
    ELSE WidthOfFirst(w, children, n - 1, gap) + w[children[n]]
         + (IF n > 1 THEN gap ELSE 0)

\* C25: the width of a spouse group is 100 without child groups, and else
\* the larger of 100 and the sum of the child groups' widths with one
\* horizontalGap between each two; so the spans handed to the child groups,
\* side by side from the parent's xStart, end inside the parent's span, and
\* a child group with a single parent group has its span inside its
\* parent's.
C25_SubtreeWidth ==
    pc = "done" =>
        LET g == groupsOf(nodes, edges)
            w == calculateCustomPositions(nodes, edges, verticalValue,
                                          horizontalValue).subtreeWidths
            gap == horizontalGapOf(horizontalValue)
        IN  \A p \in DOMAIN w :
                LET children == g.parentChildMap[p]
                    sum == WidthOfFirst(w, children, Len(children), gap)
                IN  /\ Len(children) = 0 => w[p] = 100
                    /\ Len(children) > 0 =>
                           w[p] = (IF sum > 100 THEN sum ELSE 100)
                    /\ \A n \in 1..Len(children) :
                           /\ WidthOfFirst(w, children, n, gap) <= w[p]
                           /\ ParentGroups(g.parentChildMap, children[n]) = {p} =>
                                  /\ xStarts[children[n]] =
                                         xStarts[p]
                                         + WidthOfFirst(w, children, n, gap)
                                         - w[children[n]]
                                  /\ xStarts[children[n]] + w[children[n]]
                                         <= xStarts[p] + w[p]

\* A parent group with two child groups: wider than the minimum.
C25_Witness ==
    /\ pc = "done"
    /\ \E p \in DOMAIN groupsOf(nodes, edges).parentChildMap :
           /\ Len(groupsOf(nodes, edges).parentChildMap[p]) = 2
           /\ p \in DOMAIN xStarts
           /\ calculateCustomPositions(nodes, edges, verticalValue,
                                       horizontalValue).subtreeWidths[p] > 200

TypeOK == pc \in {"idle", "lines", "closure", "trees", "draw", "done", "failed"}
====
